---------------------------- MODULE Spec2Model ----------------------------
(***************************************************************************)
(* Model of the Gp2y1014au dust-sensor driver (src/src/sensor.rs).         *)
(*                                                                         *)
(* The driver owns three capabilities: an output pin (pin_led), an analog  *)
(* channel (pin_data) and a one-shot ADC reader (one_shot_reader).  read() *)
(* drives the pin low, polls the reader until it answers something other   *)
(* than WouldBlock, drives the pin high and returns.  The capabilities are *)
(* the environment: every pin call answers Ok or Err(e), chosen freely,    *)
(* and the reader follows a script fixed when read() is entered ("not      *)
(* ready" a number of times, or for ever, and then one definitive answer). *)
(***************************************************************************)
EXTENDS Naturals, Sequences, FiniteSets

VARIABLES
    life,          \* "none" before new(), "alive", "consumed" after split()
    args,          \* the three values the caller handed to new()
    sensor,        \* the driver's fields (lines 12-14)
    split_result,  \* what split() gave back to the caller
    pc,            \* position of the caller / of read(): idle, loop, set_high, returned
    result,        \* the local `result` of read() (line 77)
    ret,           \* the value the last read() returned
    prev_ret,      \* the value the read() before it returned
    adc,           \* the reader's script for the current read()
    line,          \* level of the emitter line the pin drives
    trace          \* capability calls made by the current read(), in order

vars == <<life, args, sensor, split_result, pc, result, ret, prev_ret, adc, line, trace>>

----------------------------------------------------------------------------
(* Bounds and value sets *)

\* longest run of WouldBlock answers a finite script holds
MaxPolls == 3

PinLeds == {"led_a", "led_b"}
PinDatas == {"ch_a", "ch_b"}
Readers == {"adc_a", "adc_b"}
Words == {"w10", "w20"}
OutputErrors == {"pin_e1", "pin_e2"}
AdcErrors == {"adc_e1", "adc_e2"}
Levels == {"low", "high"}

----------------------------------------------------------------------------
(* Values: Result / nb::Result / Error as tagged records *)

Ok(v) == [tag |-> "Ok", val |-> v]
Err(e) == [tag |-> "Err", val |-> e]
Other(e) == [tag |-> "Other", val |-> e]
WouldBlock == [tag |-> "WouldBlock", val |-> "none"]
LedError(e) == [tag |-> "LedError", val |-> e]
ReadError(e) == [tag |-> "ReadError", val |-> e]
Unset == [tag |-> "Unset", val |-> "none"]
NoReturn == [tag |-> "NoReturn", val |-> "none"]

PinResponses == {Ok("unit")} \cup {Err(e) : e \in OutputErrors}
Definitive == {Ok(w) : w \in Words} \cup {Other(e) : e \in AdcErrors}

NoArgs == [pin_led |-> "none", pin_data |-> "none", one_shot_reader |-> "none"]
Moved == [pin_led |-> "moved", one_shot_reader |-> "moved", pin_data |-> "moved"]
NoSplit == <<"none", "none", "none">>

\* the scripts a reader can follow during one read(): `wait` answers of
\* WouldBlock (`pending` of them still to come) and then `final`, or
\* WouldBlock for ever
Scripts ==
    {[never |-> FALSE, wait |-> n, pending |-> n, final |-> f] :
        n \in 0..MaxPolls, f \in Definitive}
    \cup {[never |-> TRUE, wait |-> 0, pending |-> 0, final |-> WouldBlock]}

NoScript == [never |-> FALSE, wait |-> 0, pending |-> 0, final |-> WouldBlock]

----------------------------------------------------------------------------
(* The capabilities (the environment of the driver) *)

\* OutputPin::set_low / set_high: the level the line may show after the call
\* answered r when asked for level `want`; a failed call leaves it either way
LineAfter(want, r) == IF r.tag = "Ok" THEN {want} ELSE Levels

\* OneShot::read: what the reader answers now, and its script afterwards
OneShotAnswer(a) == IF a.never \/ a.pending > 0 THEN WouldBlock ELSE a.final

OneShotAdvance(a) == IF ~a.never /\ a.pending > 0 THEN [a EXCEPT !.pending = @ - 1] ELSE a

\* the log of capability calls; conversion requests beyond MaxPolls + 2,
\* one more than the longest finite script takes, are no longer written
\* down (a reader that is never ready is asked for ever)
NumOps(t, o) == Cardinality({i \in DOMAIN t : t[i].op = o})

Log(t, e) == IF e.op = "read" /\ NumOps(t, "read") > MaxPolls + 1 THEN t ELSE Append(t, e)

PinCall(o, self, r) == [op |-> o, on |-> self.pin_led, chan |-> "none", resp |-> r]

AdcCall(self, r) == [op |-> "read", on |-> self.one_shot_reader, chan |-> self.pin_data, resp |-> r]

----------------------------------------------------------------------------
(* The driver *)

\* Gp2y1014au::new
new(pin_led, pin_data, one_shot_reader) ==
    [pin_led |-> pin_led, one_shot_reader |-> one_shot_reader, pin_data |-> pin_data]

\* variant of split: the tuple in the order of the struct's fields
split_FieldOrder(self) == <<self.pin_led, self.one_shot_reader, self.pin_data>>

\* Gp2y1014au::split
split(self) == <<self.pin_led, self.pin_data, self.one_shot_reader>>

\* variant of AfterSetLow: the answer of set_low is dropped
AfterSetLow_IgnoresError(r) == [returns |-> FALSE, ret |-> NoReturn]

\* read(), the match on set_low's answer: go on, or return LedError
AfterSetLow(r) ==
    IF r.tag = "Ok"
    THEN [returns |-> FALSE, ret |-> NoReturn]
    ELSE [returns |-> TRUE, ret |-> LedError(r.val)]

\* variant of MatchReadResult: WouldBlock ends the loop as a failure
MatchReadResult_WouldBlockBreaks(read_result, cur) ==
    CASE read_result.tag = "Ok" -> [brk |-> TRUE, result |-> Ok(read_result.val)]
      [] read_result.tag = "Other" -> [brk |-> TRUE, result |-> ReadError(read_result.val)]
      [] read_result.tag = "WouldBlock" -> [brk |-> TRUE, result |-> ReadError("none")]

\* variant of MatchReadResult: a conversion failure is tagged LedError
MatchReadResult_OtherAsLedError(read_result, cur) ==
    CASE read_result.tag = "Ok" -> [brk |-> TRUE, result |-> Ok(read_result.val)]
      [] read_result.tag = "Other" -> [brk |-> TRUE, result |-> LedError(read_result.val)]
      [] read_result.tag = "WouldBlock" -> [brk |-> FALSE, result |-> cur]

\* variant of MatchReadResult: every Err, not only WouldBlock, is retried
MatchReadResult_OtherContinues(read_result, cur) ==
    CASE read_result.tag = "Ok" -> [brk |-> TRUE, result |-> Ok(read_result.val)]
      [] read_result.tag = "Other" -> [brk |-> FALSE, result |-> cur]
      [] read_result.tag = "WouldBlock" -> [brk |-> FALSE, result |-> cur]

\* variant of MatchReadResult: the reader's failure detail is replaced
MatchReadResult_DropsDetail(read_result, cur) ==
    CASE read_result.tag = "Ok" -> [brk |-> TRUE, result |-> Ok(read_result.val)]
      [] read_result.tag = "Other" -> [brk |-> TRUE, result |-> ReadError("adc_e1")]
      [] read_result.tag = "WouldBlock" -> [brk |-> FALSE, result |-> cur]

\* read(), the match on read_result inside the loop: cur is `result` so far
MatchReadResult(read_result, cur) ==
    CASE read_result.tag = "Ok" -> [brk |-> TRUE, result |-> Ok(read_result.val)]
      [] read_result.tag = "Other" -> [brk |-> TRUE, result |-> ReadError(read_result.val)]
      [] read_result.tag = "WouldBlock" -> [brk |-> FALSE, result |-> cur]

\* variant of AfterSetHigh: the answer of set_high is dropped
AfterSetHigh_KeepsResult(r, res) == res

\* variant of AfterSetHigh: a set_high failure replaces a sample only
AfterSetHigh_GuardsSampleOnly(r, res) ==
    IF r.tag = "Ok" \/ res.tag = "ReadError" THEN res ELSE LedError(r.val)

\* read(), the match on set_high's answer and the final expression
AfterSetHigh(r, res) == IF r.tag = "Ok" THEN res ELSE LedError(r.val)

Init ==
    /\ life = "none"
    /\ args = NoArgs
    /\ sensor = NoArgs
    /\ split_result = NoSplit
    /\ pc = "idle"
    /\ result = Unset
    /\ ret = NoReturn
    /\ prev_ret = NoReturn
    /\ adc = NoScript
    /\ line \in Levels
    /\ trace = <<>>

\* variant of New: the constructor switches the emitter off
New_DrivesHigh ==
    /\ life = "none"
    /\ \E pin_led \in PinLeds, pin_data \in PinDatas, one_shot_reader \in Readers :
        /\ args' = [pin_led |-> pin_led, pin_data |-> pin_data,
                    one_shot_reader |-> one_shot_reader]
        /\ sensor' = new(pin_led, pin_data, one_shot_reader)
        /\ trace' = <<[op |-> "set_high", on |-> pin_led, chan |-> "none",
                       resp |-> Ok("unit")]>>
    /\ line' = "high"
    /\ life' = "alive"
    /\ UNCHANGED <<split_result, pc, result, ret, prev_ret, adc>>

\* the caller builds the driver from three capabilities
New ==
    /\ life = "none"
    /\ \E pin_led \in PinLeds, pin_data \in PinDatas, one_shot_reader \in Readers :
        /\ args' = [pin_led |-> pin_led, pin_data |-> pin_data,
                    one_shot_reader |-> one_shot_reader]
        /\ sensor' = new(pin_led, pin_data, one_shot_reader)
    /\ life' = "alive"
    /\ UNCHANGED <<split_result, pc, result, ret, prev_ret, adc, line, trace>>

\* variant of ReadEnter: a driver whose last read() failed on the pin
\* answers the same failure again without touching the capabilities
ReadEnter_Poisoned ==
    /\ life = "alive"
    /\ pc \in {"idle", "returned"}
    /\ \E s \in Scripts, r \in PinResponses :
        LET a == AfterSetLow(r) IN
        IF ret.tag = "LedError"
        THEN /\ pc' = "returned"
             /\ ret' = ret
             /\ trace' = <<>>
             /\ UNCHANGED <<adc, line>>
        ELSE /\ adc' = s
             /\ line' \in LineAfter("low", r)
             /\ trace' = <<PinCall("set_low", sensor, r)>>
             /\ pc' = IF a.returns THEN "returned" ELSE "loop"
             /\ ret' = a.ret
    /\ prev_ret' = ret
    /\ result' = Unset
    /\ UNCHANGED <<life, args, sensor, split_result>>

\* read() is entered and calls set_low
ReadEnter ==
    /\ life = "alive"
    /\ pc \in {"idle", "returned"}
    /\ \E s \in Scripts, r \in PinResponses :
        LET a == AfterSetLow(r) IN
        /\ adc' = s
        /\ line' \in LineAfter("low", r)
        /\ trace' = <<PinCall("set_low", sensor, r)>>
        /\ pc' = IF a.returns THEN "returned" ELSE "loop"
        /\ ret' = a.ret
    /\ prev_ret' = ret
    /\ result' = Unset
    /\ UNCHANGED <<life, args, sensor, split_result>>

\* variant of ReadPoll: a conversion failure is returned from inside the
\* loop, before set_high
ReadPoll_ReturnsOnFailure ==
    /\ pc = "loop"
    /\ LET read_result == OneShotAnswer(adc)
           m == MatchReadResult(read_result, result)
           fails == read_result.tag = "Other"
       IN /\ adc' = OneShotAdvance(adc)
          /\ trace' = Log(trace, AdcCall(sensor, read_result))
          /\ result' = m.result
          /\ pc' = IF fails THEN "returned" ELSE IF m.brk THEN "set_high" ELSE "loop"
          /\ ret' = IF fails THEN m.result ELSE ret
    /\ UNCHANGED <<life, args, sensor, split_result, prev_ret, line>>

\* variant of ReadPoll: the emitter is driven low again before each retry
ReadPoll_RepulsesLed ==
    /\ pc = "loop"
    /\ LET read_result == OneShotAnswer(adc)
           m == MatchReadResult(read_result, result)
           logged == Log(trace, AdcCall(sensor, read_result))
       IN /\ adc' = OneShotAdvance(adc)
          /\ trace' = IF m.brk \/ logged = trace
                       THEN logged
                       ELSE Append(logged, PinCall("set_low", sensor, Ok("unit")))
          /\ result' = m.result
          /\ pc' = IF m.brk THEN "set_high" ELSE "loop"
    /\ UNCHANGED <<life, args, sensor, split_result, ret, prev_ret, line>>

\* one turn of the loop: a conversion request and the match on its answer
ReadPoll ==
    /\ pc = "loop"
    /\ LET read_result == OneShotAnswer(adc)
           m == MatchReadResult(read_result, result)
       IN /\ adc' = OneShotAdvance(adc)
          /\ trace' = Log(trace, AdcCall(sensor, read_result))
          /\ result' = m.result
          /\ pc' = IF m.brk THEN "set_high" ELSE "loop"
    /\ UNCHANGED <<life, args, sensor, split_result, ret, prev_ret, line>>

\* after the loop: set_high, then the return
ReadExit ==
    /\ pc = "set_high"
    /\ \E r \in PinResponses :
        /\ line' \in LineAfter("high", r)
        /\ trace' = Log(trace, PinCall("set_high", sensor, r))
        /\ ret' = AfterSetHigh(r, result)
    /\ pc' = "returned"
    /\ UNCHANGED <<life, args, sensor, split_result, result, prev_ret, adc>>

\* split() consumes the driver; no read() is running (it borrows the driver)
Split ==
    /\ life = "alive"
    /\ pc \in {"idle", "returned"}
    /\ split_result' = split(sensor)
    /\ sensor' = Moved
    /\ life' = "consumed"
    /\ UNCHANGED <<args, pc, result, ret, prev_ret, adc, line, trace>>

Next == New \/ ReadEnter \/ ReadPoll \/ ReadExit \/ Split

Spec == Init /\ [][Next]_vars

\* the thread inside read() keeps running until read() returns
FairSpec == Spec /\ WF_vars(ReadPoll) /\ WF_vars(ReadExit)

----------------------------------------------------------------------------
(* What one read() did, read off the log of its capability calls *)

Last(t) == t[Len(t)]

LowFailed(t) == Len(t) >= 1 /\ t[1].op = "set_low" /\ t[1].resp.tag = "Err"

LowOk(t) == Len(t) >= 1 /\ t[1].op = "set_low" /\ t[1].resp.tag = "Ok"

HighFailed(t) == Len(t) >= 1 /\ Last(t).op = "set_high" /\ Last(t).resp.tag = "Err"

HighOk(t) == Len(t) >= 1 /\ Last(t).op = "set_high" /\ Last(t).resp.tag = "Ok"

DefinitiveAt(t) == {i \in DOMAIN t : t[i].op = "read" /\ t[i].resp.tag # "WouldBlock"}

\* the first answer of the reader that is not WouldBlock
FirstDefinitive(t) ==
    IF DefinitiveAt(t) = {}
    THEN WouldBlock
    ELSE t[CHOOSE i \in DefinitiveAt(t) : \A j \in DefinitiveAt(t) : i <= j].resp

Returned == pc = "returned"

----------------------------------------------------------------------------
(* Claims *)

\* C1: when the first pin call of read(), set_low, fails, read() has returned
\* LedError and that call made no conversion request and no set_high call:
\* set_low is the only capability call of the read().
C1_SetLowFailureReturnsAtOnce ==
    LowFailed(trace) =>
        /\ Returned
        /\ ret.tag = "LedError"
        /\ NumOps(trace, "read") = 0
        /\ NumOps(trace, "set_high") = 0
        /\ Len(trace) = 1

C1_Witness ==
    /\ Returned
    /\ LowFailed(trace)
    /\ ret.tag = "LedError"
    /\ line = "low"

\* C2: when set_low succeeded, the loop ended with a definitive outcome (a
\* sample or a conversion failure) and set_high failed, read() returns
\* LedError, and neither the sample nor the conversion failure.
C2_SetHighFailureOverrides ==
    (Returned /\ LowOk(trace) /\ HighFailed(trace)) =>
        /\ result.tag \in {"Ok", "ReadError"}
        /\ FirstDefinitive(trace).tag \in {"Ok", "Other"}
        /\ ret.tag = "LedError"
        /\ ret # result

C2_Witness ==
    /\ Returned
    /\ LowOk(trace)
    /\ HighFailed(trace)
    /\ result.tag = "Ok"
    /\ ret.tag = "LedError"

\* C3: when set_low succeeds, the reader answers WouldBlock N times and then
\* Ok(w), and set_high succeeds, read() returns Ok(w) whatever N is (the
\* value of N = 0); WouldBlock never comes back as a failure.
C3_WouldBlockIsTransparent ==
    (Returned /\ LowOk(trace) /\ HighOk(trace) /\ ~adc.never /\ adc.final.tag = "Ok") =>
        ret = Ok(adc.final.val)

C3_Witness ==
    /\ Returned
    /\ LowOk(trace)
    /\ HighOk(trace)
    /\ adc.wait >= 2
    /\ NumOps(trace, "read") = adc.wait + 1
    /\ adc.final = Ok("w20")
    /\ ret = Ok("w20")

\* C4: when set_low succeeds, the reader answers Other(e) after N answers of
\* WouldBlock, and set_high succeeds, read() returns ReadError and no sample.
C4_ConversionFailureIsReturned ==
    (Returned /\ LowOk(trace) /\ HighOk(trace) /\ ~adc.never /\ adc.final.tag = "Other") =>
        ret.tag = "ReadError"

C4_Witness ==
    /\ Returned
    /\ LowOk(trace)
    /\ HighOk(trace)
    /\ adc.wait >= 1
    /\ adc.final.tag = "Other"
    /\ ret.tag = "ReadError"

\* C5: a read() that returned gave exactly one of Ok(word), LedError and
\* ReadError: LedError iff set_low or set_high failed; ReadError iff set_low
\* succeeded, the first definitive answer of the reader was a failure and
\* set_high succeeded; Ok(word) iff set_low succeeded, the first definitive
\* answer was Ok(word) and set_high succeeded.
C5_OutcomeIsDetermined ==
    (Returned /\ Len(trace) >= 1) =>
        /\ ret.tag \in {"Ok", "LedError", "ReadError"}
        /\ ret.tag = "LedError" <=> (LowFailed(trace) \/ HighFailed(trace))
        /\ ret.tag = "ReadError" <=>
            (LowOk(trace) /\ FirstDefinitive(trace).tag = "Other" /\ HighOk(trace))
        /\ ret.tag = "Ok" <=>
            (LowOk(trace) /\ FirstDefinitive(trace).tag = "Ok" /\ HighOk(trace))
        /\ ret.tag = "Ok" => ret.val = FirstDefinitive(trace).val

C5_Witness ==
    /\ Returned
    /\ LowOk(trace)
    /\ HighFailed(trace)
    /\ FirstDefinitive(trace).tag = "Other"
    /\ ret.tag = "LedError"

\* C6: once set_low has succeeded and the reader is one that gives a
\* definitive answer after finitely many WouldBlock, read() returns: the loop
\* is left at the first definitive answer (after wait + 1 requests), and the
\* call ends with the set_high call.
C6_DefinitiveOutcomeEndsRead ==
    /\ [][(pc = "loop" /\ OneShotAnswer(adc).tag # "WouldBlock") => pc' = "set_high"]_vars
    /\ (pc = "loop" /\ ~adc.never) ~>
           (/\ Returned
            /\ Len(trace) >= 1
            /\ Last(trace).op = "set_high"
            /\ NumOps(trace, "read") = adc.wait + 1)

C6_Witness ==
    /\ Returned
    /\ LowOk(trace)
    /\ adc.wait = MaxPolls
    /\ NumOps(trace, "read") = MaxPolls + 1
    /\ FirstDefinitive(trace).tag = "Other"
    /\ Last(trace).op = "set_high"

\* C7: with set_low done and a reader that answers WouldBlock every time,
\* no step of read() leaves the loop: the next conversion request is always
\* possible (no retry bound), read() does not return, set_high is not
\* called and the emitter line stays low.
C7_NeverReadyNeverReturns ==
    [][(pc = "loop" /\ adc.never) =>
          /\ ENABLED ReadPoll
          /\ OneShotAnswer(adc) = WouldBlock
          /\ line = "low"
          /\ pc' = "loop"
          /\ adc'.never
          /\ ret' = NoReturn
          /\ NumOps(trace', "set_high") = 0
          /\ line' = "low"]_vars

C7_Witness ==
    /\ pc = "loop"
    /\ adc.never
    /\ NumOps(trace, "read") = MaxPolls + 2
    /\ NumOps(trace, "set_high") = 0
    /\ ret = NoReturn
    /\ line = "low"

\* C8: split() hands back the three values given to new(), each in its
\* position (pin_led, pin_data, one_shot_reader), calls no capability, and
\* consumes the driver: afterwards no read() and no split() is possible.
C8_SplitReturnsWhatNewTook ==
    /\ [][(life = "alive" /\ life' = "consumed") =>
             /\ split_result' = <<args.pin_led, args.pin_data, args.one_shot_reader>>
             /\ UNCHANGED <<args, line, adc, trace, ret>>]_vars
    /\ [](life = "consumed" =>
             /\ split_result = <<args.pin_led, args.pin_data, args.one_shot_reader>>
             /\ ~ENABLED (ReadEnter \/ ReadPoll \/ ReadExit \/ Split \/ New))

C8_Witness ==
    /\ life = "consumed"
    /\ Returned
    /\ args = [pin_led |-> "led_b", pin_data |-> "ch_a", one_shot_reader |-> "adc_b"]
    /\ split_result = <<"led_b", "ch_a", "adc_b">>

\* C9: new() calls no capability: no set_low, no set_high, no conversion
\* request; the emitter line is after new() what it was before.
C9_NewTouchesNothing ==
    [][(life = "none" /\ life' = "alive") =>
          /\ UNCHANGED <<line, adc, trace>>
          /\ trace' = <<>>
          /\ sensor' = [pin_led |-> args'.pin_led, pin_data |-> args'.pin_data,
                        one_shot_reader |-> args'.one_shot_reader]]_vars

C9_Witness ==
    /\ life = "alive"
    /\ pc = "idle"
    /\ line = "low"
    /\ trace = <<>>

\* what a read() returns, as a function of the answers the capabilities
\* gave during that call alone
Outcome(t) ==
    IF LowFailed(t) THEN LedError(t[1].resp.val)
    ELSE IF HighFailed(t) THEN LedError(Last(t).resp.val)
    ELSE IF FirstDefinitive(t).tag = "Ok" THEN Ok(FirstDefinitive(t).val)
    ELSE ReadError(FirstDefinitive(t).val)

\* C10: the driver is usable after a failed read() and keeps nothing from
\* it: its fields are still those given to new(), another read() can be
\* made, a read() following a failed one starts with set_low again, and
\* what it returns follows from the answers given during that call alone.
C10_NoStateBetweenReads ==
    /\ (life = "alive" /\ Returned /\ ret.tag \in {"LedError", "ReadError"}) =>
          /\ ENABLED ReadEnter
          /\ sensor = [pin_led |-> args.pin_led, pin_data |-> args.pin_data,
                       one_shot_reader |-> args.one_shot_reader]
    /\ (Returned /\ prev_ret.tag \in {"LedError", "ReadError"}) =>
          /\ Len(trace) >= 1
          /\ trace[1].op = "set_low"
          /\ ret = Outcome(trace)

C10_Witness ==
    /\ Returned
    /\ prev_ret.tag = "LedError"
    /\ LowOk(trace)
    /\ HighOk(trace)
    /\ ret = Ok("w10")

\* C11: the failure read() returns carries the capability's own error
\* unchanged: LedError holds the error of the set_low or set_high call that
\* failed, ReadError holds the error of the reader's definitive failure.
C11_ErrorPayloadIsVerbatim ==
    (Returned /\ Len(trace) >= 1) =>
        /\ ret.tag = "LedError" =>
              /\ LowFailed(trace) \/ HighFailed(trace)
              /\ LowFailed(trace) => ret.val = trace[1].resp.val
              /\ ~LowFailed(trace) => ret.val = Last(trace).resp.val
              /\ ret.val \in OutputErrors
        /\ ret.tag = "ReadError" =>
              /\ FirstDefinitive(trace) = Other(ret.val)
              /\ ret.val \in AdcErrors

C11_Witness ==
    /\ Returned
    /\ LowOk(trace)
    /\ HighOk(trace)
    /\ FirstDefinitive(trace) = Other("adc_e2")
    /\ ret = ReadError("adc_e2")
    /\ prev_ret = LedError("pin_e2")

\* the capability calls of one read() come in the fixed order
InOrder(t) ==
    /\ t[1].op = "set_low"
    /\ NumOps(t, "set_low") = 1
    /\ NumOps(t, "set_high") <= 1
    /\ \A i \in DOMAIN t : t[i].op = "set_high" => i = Len(t)
    /\ \A i \in DOMAIN t : t[i].op = "read" =>
          /\ i > 1
          /\ t[1].resp.tag = "Ok"
          /\ \A j \in 1..(i - 1) : t[j].op # "set_high"
    /\ \A i, j \in DOMAIN t : (t[i].op = "read" /\ t[j].op = "read") =>
          \A k \in i..j : t[k].op = "read"

\* C12: within one read() set_low is called exactly once and first; every
\* conversion request comes after the successful set_low and before
\* set_high; set_high is called at most once and last; no pin call lies
\* between the first and the last conversion request.
C12_CallsInFixedOrder ==
    /\ pc \in {"loop", "set_high", "returned"} => Len(trace) >= 1
    /\ Len(trace) >= 1 => InOrder(trace)
    /\ pc = "loop" => NumOps(trace, "set_high") = 0
    /\ pc = "set_high" => (Last(trace).op = "read" /\ NumOps(trace, "set_high") = 0)

C12_Witness ==
    /\ Returned
    /\ Len(trace) = MaxPolls + 3
    /\ trace[1].op = "set_low"
    /\ \A i \in 2..(MaxPolls + 2) : trace[i].op = "read"
    /\ Last(trace).op = "set_high"

\* C13: when read() returns Ok(word) or ReadError, the last pin call of
\* that read() was a set_high that succeeded, after a conversion failure as
\* after a sample, so the emitter line is not left low.
C13_EmitterOffUnlessLedError ==
    (Returned /\ ret.tag \in {"Ok", "ReadError"}) =>
        /\ HighOk(trace)
        /\ NumOps(trace, "set_high") = 1
        /\ line = "high"

C13_Witness ==
    /\ Returned
    /\ ret.tag = "ReadError"
    /\ FirstDefinitive(trace).tag = "Other"
    /\ HighOk(trace)
    /\ line = "high"

\* C14: in a read() whose set_low succeeded and whose reader answers
\* WouldBlock N times before its first definitive answer, the reader is
\* asked exactly N + 1 times, each time by the driver's own reader on the
\* driver's own channel, and not again after the definitive answer.
C14_ExactlyNPlusOneRequests ==
    /\ \A i \in DOMAIN trace : trace[i].op = "read" =>
          /\ trace[i].chan = args.pin_data
          /\ trace[i].on = args.one_shot_reader
    /\ (LowOk(trace) /\ ~adc.never) =>
          /\ pc = "loop" =>
                /\ NumOps(trace, "read") = adc.wait - adc.pending
                /\ DefinitiveAt(trace) = {}
          /\ pc \in {"set_high", "returned"} =>
                /\ NumOps(trace, "read") = adc.wait + 1
                /\ Cardinality(DefinitiveAt(trace)) = 1
                /\ \A i \in DOMAIN trace : trace[i].op = "read" =>
                      \A d \in DefinitiveAt(trace) : i <= d

C14_Witness ==
    /\ Returned
    /\ LowOk(trace)
    /\ adc.wait = 2
    /\ NumOps(trace, "read") = 3
    /\ DefinitiveAt(trace) = {4}
    /\ args.pin_data = "ch_b"
    /\ trace[4].chan = "ch_b"

=============================================================================
